---------------------------- MODULE Spec2Model ----------------------------
(***************************************************************************)
(* Model of the chatterbyte backend: two Express servers over the Google   *)
(* OAuth / Gmail client.                                                   *)
(*   variant A (src/unnamed/part_000): connected accounts kept in the      *)
(*     module-level array connectedAccounts;                               *)
(*   variant B (src/index.js): one user per express-session session.      *)
(* Both share fetchEmails, which lists the inbox, fetches every message    *)
(* detail concurrently (Promise.all) and extracts one record per message.  *)
(*                                                                         *)
(* Node runs every handler on one thread: a handler runs without           *)
(* interruption from one await to the next, so each action below is the    *)
(* code between two awaits, and the provider's answer (success or failure, *)
(* and the data returned) is the action's nondeterministic input.          *)
(***************************************************************************)
EXTENDS Integers, Sequences, FiniteSets, TLC

\* ------------------------------------------------------------------ bounds
MaxParts  == 2    \* longest payload.parts list drawn for the extractor
MaxMsgs   == 3    \* longest identifier list of a stand-alone fetchEmails run
MaxTokens == 2    \* token sets the provider issues in one run of a server

\* ------------------------------------------------------- message extraction
\* A body's data is absent (NoData: no body, or a body with no data field, as
\* for an attachment), the empty string (<< >>, falsy in JS like an absent
\* one) or base64 text, written as the sequence of its characters' 6-bit
\* values.
NoData == << -1 >>

RECURSIVE Base64Decode(_)
\* Buffer.from(data, 'base64'): four characters give three bytes; a trailing
\* group of two gives one byte, of three gives two, of one gives none.
Base64Decode(s) ==
  IF Len(s) >= 4 THEN
    << s[1] * 4 + (s[2] \div 16),
       (s[2] % 16) * 16 + (s[3] \div 4),
       (s[3] % 4) * 64 + s[4] >> \o Base64Decode(SubSeq(s, 5, Len(s)))
  ELSE IF Len(s) = 3 THEN
    << s[1] * 4 + (s[2] \div 16), (s[2] % 16) * 16 + (s[3] \div 4) >>
  ELSE IF Len(s) = 2 THEN
    << s[1] * 4 + (s[2] \div 16) >>
  ELSE << >>

\* .toString('utf-8') on bytes: an ASCII byte is its own code point, a byte
\* that starts no valid sequence becomes U+FFFD (multi-byte sequences are not
\* among the inputs drawn below).
Utf8ToString(bytes) ==
  [i \in 1..Len(bytes) |-> IF bytes[i] < 128 THEN bytes[i] ELSE 65533]

Decode(data) == Utf8ToString(Base64Decode(data))

\* part.body?.data / payload.body?.data as a JS condition
HasData(data) == data # NoData /\ data # << >>

RECURSIVE ScanPartsFirstWins(_, _, _)
\* ScanParts with the first part of a type winning instead of the last.
ScanPartsFirstWins(parts, textPlain, textHtml) ==
  IF parts = << >> THEN [textPlain |-> textPlain, textHtml |-> textHtml]
  ELSE LET part == Head(parts)
           tp == IF part.mimeType = "text/plain" /\ HasData(part.data) /\ textPlain = << >>
                 THEN Decode(part.data) ELSE textPlain
           th == IF part.mimeType = "text/html" /\ HasData(part.data) /\ textHtml = << >>
                 THEN Decode(part.data) ELSE textHtml
       IN ScanPartsFirstWins(Tail(parts), tp, th)

RECURSIVE ScanParts(_, _, _)
\* for (const part of parts) {...}: a later part with data overwrites an
\* earlier one of the same MIME type; a part without data changes nothing.
ScanParts(parts, textPlain, textHtml) ==
  IF parts = << >> THEN [textPlain |-> textPlain, textHtml |-> textHtml]
  ELSE LET part == Head(parts)
           tp == IF part.mimeType = "text/plain" /\ HasData(part.data)
                 THEN Decode(part.data) ELSE textPlain
           th == IF part.mimeType = "text/html" /\ HasData(part.data)
                 THEN Decode(part.data) ELSE textHtml
       IN ScanParts(Tail(parts), tp, th)

\* msgDetail.data.payload when the detail carries none
NoPayload == [ present |-> FALSE, headers |-> << >>, parts |-> << >>, data |-> NoData ]

ExtractBodies(payload) ==
  IF ~payload.present THEN [textPlain |-> << >>, textHtml |-> << >>]
  ELSE IF Len(payload.parts) > 0 THEN ScanParts(payload.parts, << >>, << >>)
  ELSE IF HasData(payload.data)
       THEN [textPlain |-> Decode(payload.data), textHtml |-> << >>]
  ELSE [textPlain |-> << >>, textHtml |-> << >>]

\* headers.find(h => h.name === name)?.value || ""
getHeader(headers, name) ==
  IF \E i \in 1..Len(headers) : headers[i].name = name
  THEN headers[CHOOSE i \in 1..Len(headers) :
                 /\ headers[i].name = name
                 /\ \A j \in 1..(i - 1) : headers[j].name # name].value
  ELSE ""

\* msgDetail.data.payload?.headers || []
Headers(msgDetail) ==
  IF ~msgDetail.payload.present THEN << >> ELSE msgDetail.payload.headers

\* The record the map callback of fetchEmails returns for one message detail.
Extract(msgDetail) ==
  LET b == ExtractBodies(msgDetail.payload)
      subject == getHeader(Headers(msgDetail), "Subject")
  IN [ subject   |-> IF subject = "" THEN "(No Subject)" ELSE subject,
       from      |-> getHeader(Headers(msgDetail), "From"),
       date      |-> getHeader(Headers(msgDetail), "Date"),
       snippet   |-> msgDetail.snippet,
       textPlain |-> b.textPlain,
       textHtml  |-> b.textHtml ]

\* ---- inputs drawn for the extractor
B64Hi  == << 18, 6, 36 >>          \* "SGk"  -> "Hi"
B64Yo  == << 22, 22, 60 >>         \* "WW8"  -> "Yo"
B64One == << 16 >>                 \* "Q"    -> "" (one character: no byte)
DataValues == { NoData, << >>, B64Hi, B64Yo, B64One }
MimeTypes  == { "text/plain", "text/html", "image/png" }
Parts      == [ mimeType : MimeTypes, data : DataValues ]
PartLists  == UNION { [1..n -> Parts] : n \in 0..MaxParts }
HeaderLists ==
  { << >>,
    << [name |-> "From", value |-> "a@x.com"], [name |-> "Subject", value |-> "Hello"],
       [name |-> "Subject", value |-> "Second"] >>,
    << [name |-> "subject", value |-> "lower"], [name |-> "Subject", value |-> ""],
       [name |-> "Date", value |-> "Mon"] >> }
Payloads ==
  { NoPayload } \cup
  [ present : { TRUE }, headers : HeaderLists, parts : PartLists,
    data : { NoData, B64Hi, B64One } ]
MsgDetails == [ payload : Payloads, snippet : { "", "snip" } ]

VARIABLES
  msgDetail,          \* extractor run: the detail handed to the extractor
  extracted,          \* extractor run: << >>, or << the record extracted >>
  fetch,              \* stand-alone fetchEmails run
  variant,            \* which server runs: "A", "B" (or "none")
  connectedAccounts,  \* variant A: the array the module variable refers to
  sessions,           \* variant B: the session store, user per session id
  callbacks,          \* in-flight GET /api/auth/google/callback requests
  gets,               \* in-flight GET /api/emails requests
  sent,               \* the response the last step sent (NoResponse: none)
  nextToken,          \* the next token set the provider issues
  tombstone,          \* history: per email, the tokens of the account a
                      \* DELETE removed, until a callback for it completes
  lastLogin           \* history: per session, the email of the most recent
                      \* successful callback not followed by a logout

vars == << msgDetail, extracted, fetch, variant, connectedAccounts,
           sessions, callbacks, gets, sent, nextToken, tombstone, lastLogin >>

\* --------------------------------------------------------------- fetchEmails
\* The state of one fetchEmails call:
\*   status   "list" (awaiting messages.list), "details" (awaiting Promise.all),
\*            "fulfilled" or "rejected" (the promise fetchEmails returned);
\*   ids      the identifiers the list call returned;
\*   results  Promise.all's array: per position << >> or << the record >>;
\*   failed   the positions whose detail fetch was rejected;
\*   value    the array fetchEmails resolved with.
FetchIdle ==
  [ status |-> "idle", ids |-> << >>, results |-> << >>, failed |-> {}, value |-> << >> ]

\* gmail.users.messages.list(...) issued
FetchStart == [ FetchIdle EXCEPT !.status = "list" ]

FetchListFailed(f) == [ f EXCEPT !.status = "rejected" ]

\* if (!res.data.messages) return [];
FetchListEmpty(f) == [ f EXCEPT !.status = "fulfilled" ]

\* res.data.messages.map(async msg => ...): one detail fetch per identifier
FetchListIds(f, ids) ==
  [ f EXCEPT !.status = IF ids = << >> THEN "fulfilled" ELSE "details",
             !.ids = ids,
             !.results = [ i \in 1..Len(ids) |-> << >> ] ]

FetchFetched(f) == { i \in 1..Len(f.ids) : f.results[i] # << >> }

FetchPending(f) ==
  { i \in 1..Len(f.ids) : f.results[i] = << >> /\ i \notin f.failed }

\* Settle with the values kept in the order the promises settle.
SettleInCompletionOrder(results, i, rec) ==
  LET k == CHOOSE k \in 1..Len(results) :
             results[k] = << >> /\ \A j \in 1..(k - 1) : results[j] # << >>
  IN [ results EXCEPT ![k] = << rec >> ]

\* Promise.all keeps the value of the i-th promise at position i.
Settle(results, i, rec) == [ results EXCEPT ![i] = << rec >> ]

\* The i-th detail fetch returned msgDetail: its record is extracted; when it
\* was the last one and none was rejected, Promise.all fulfils.
FetchDetailOk(f, i, detail) ==
  LET res == Settle(f.results, i, Extract(detail))
      all == \A k \in 1..Len(f.ids) : res[k] # << >>
  IN IF f.status = "details" /\ all
     THEN [ f EXCEPT !.results = res, !.status = "fulfilled",
                     !.value = [ k \in 1..Len(f.ids) |-> res[k][1] ] ]
     ELSE [ f EXCEPT !.results = res ]

\* The i-th detail fetch was rejected: Promise.all rejects at once (the first
\* rejection wins; a promise already settled stays as it is).
FetchDetailFailed(f, i) ==
  [ f EXCEPT !.failed = @ \cup { i },
             !.status = IF @ = "details" THEN "rejected" ELSE @ ]

\* The provider's detail of message id (one mailbox, a different body per id).
DetailOf(id) ==
  [ payload |-> [ present |-> TRUE,
                  headers |-> << [name |-> "Subject", value |-> "Hello"] >>,
                  parts   |-> << >>,
                  data    |-> << 16 + id, 16 >> ],
    snippet |-> "snip" ]

RECURSIVE FetchDetailsOk(_, _)
\* The detail fetches at the positions S returned, one after the other.
FetchDetailsOk(f, S) ==
  IF S = {} THEN f
  ELSE LET i == CHOOSE i \in S : TRUE
       IN FetchDetailsOk(FetchDetailOk(f, i, DetailOf(f.ids[i])), S \ { i })

\* The states a call awaiting its details can be in when Promise.all settles:
\* every detail fetch returned, or some did and then one was rejected. A
\* detail fetch that returns touches nothing but the call's own results, so a
\* server takes the ones up to that moment in one step.
FetchSettlements(f) ==
  LET all == 1..Len(f.ids) IN
  { FetchDetailsOk(f, all) } \cup
  { FetchDetailFailed(FetchDetailsOk(f, S), i) :
      << S, i >> \in { x \in (SUBSET all) \X all : x[2] \notin x[1] } }

\* ------------------------------------------------------------ server state
Emails       == { "a@x.com", "b@x.com" }   \* the accounts that log in
AllEmails    == Emails \cup { "c@x.com" }   \* the emails a DELETE may name
Sids         == { 1, 2 }                    \* variant B: session cookies
CallbackReqs == { 1, 2 }                    \* concurrent callback requests
GetReqs      == { 1 }                       \* concurrent GET /api/emails requests
\* What messages.list answers inside a server when the inbox holds messages
\* (newest first); an inbox with none is a separate outcome of the call.
ServerInboxes == { << 2, 1 >> }

\* A request that is not being handled
IdleCallback ==
  [ pc |-> "idle", sid |-> 0, tokens |-> 0, email |-> "", fetch |-> FetchIdle,
    called |-> FALSE ]

\* A loop over an array holds the array object: `live` says it is the one
\* connectedAccounts refers to; if not, `arr` is that detached array, which
\* nothing changes any more.
IdleGet ==
  [ pc |-> "idle", sid |-> 0, live |-> FALSE, arr |-> << >>, idx |-> 0,
    email |-> "", tokens |-> 0,
    fetch |-> FetchIdle, updatedAccounts |-> << >>, called |-> FALSE,
    seen |-> "", after |-> {} ]

\* A response: route, status, error text or redirect target, JSON body, and
\* about the request that got it: whether it had made a provider call, its
\* session, the email and tokens it held, and how far its fetchEmails calls
\* had come (account idx of the loop, status, the positions whose detail
\* was fetched and those whose fetch was rejected, value).
NoResponse ==
  [ route |-> "", status |-> 0, text |-> "", body |-> << >>, called |-> FALSE,
    sid |-> 0, email |-> "", tokens |-> 0, idx |-> 0, fstatus |-> "idle",
    fetched |-> {}, failed |-> {}, value |-> << >>, seen |-> "", after |-> {} ]

\* tombstone[e].deleted: a DELETE for e completed and no callback for e has
\* completed since; tokens: those of the account it removed (0: it removed none).
NoTombstone == [ deleted |-> FALSE, tokens |-> 0 ]

\* The extractor and fetchEmails runs leave the servers as constructed, and
\* the servers leave those runs' variables alone.
ServerVars == << variant, connectedAccounts, sessions, callbacks, gets,
                 sent, nextToken, tombstone, lastLogin >>

ServerInit(v) ==
  /\ variant = v
  /\ connectedAccounts = << >>                     \* let connectedAccounts = []
  /\ sessions = [ s \in Sids |-> << >> ]
  /\ callbacks = [ c \in CallbackReqs |-> IdleCallback ]
  /\ gets = [ g \in GetReqs |-> IdleGet ]
  /\ sent = NoResponse
  /\ nextToken = 1
  /\ tombstone = [ e \in AllEmails |-> NoTombstone ]
  /\ lastLogin = [ s \in Sids |-> "" ]

\* ------------------------------------------------------- the extractor alone
InitExtract ==
  /\ msgDetail \in MsgDetails
  /\ extracted = << >>
  /\ fetch = FetchIdle
  /\ ServerInit("none")

RunExtract ==
  /\ extracted = << >>
  /\ extracted' = << Extract(msgDetail) >>
  /\ UNCHANGED << msgDetail, fetch, ServerVars >>

SpecExtract == InitExtract /\ [][RunExtract]_vars

\* ------------------------------------------------------- fetchEmails alone
\* The identifier lists messages.list may return: distinct identifiers in
\* any order.
IdLists ==
  { s \in UNION { [1..n -> 1..MaxMsgs] : n \in 0..MaxMsgs } :
      \A i, j \in 1..Len(s) : i # j => s[i] # s[j] }

InitFetch ==
  /\ msgDetail = [ payload |-> NoPayload, snippet |-> "" ]
  /\ extracted = << >>
  /\ fetch = FetchIdle
  /\ ServerInit("none")

FetchCall ==
  /\ fetch.status = "idle"
  /\ fetch' = FetchStart
  /\ UNCHANGED << msgDetail, extracted, ServerVars >>

FetchListReturns ==
  /\ fetch.status = "list"
  /\ \/ fetch' = FetchListFailed(fetch)
     \/ fetch' = FetchListEmpty(fetch)
     \/ \E ids \in IdLists : fetch' = FetchListIds(fetch, ids)
  /\ UNCHANGED << msgDetail, extracted, ServerVars >>

\* A detail fetch completes, in any order; the ones still in flight when
\* Promise.all rejects complete later, to no effect.
FetchDetailReturns ==
  /\ fetch.status \in { "details", "rejected" }
  /\ \E i \in FetchPending(fetch) :
       \/ fetch' = FetchDetailOk(fetch, i, DetailOf(fetch.ids[i]))
       \/ fetch' = FetchDetailFailed(fetch, i)
  /\ UNCHANGED << msgDetail, extracted, ServerVars >>

NextFetch == FetchCall \/ FetchListReturns \/ FetchDetailReturns

SpecFetch == InitFetch /\ [][NextFetch]_vars

\* ------------------------------------------------------------- the servers
InitServer ==
  /\ msgDetail = [ payload |-> NoPayload, snippet |-> "" ]
  /\ extracted = << >>
  /\ fetch = FetchIdle
  /\ \E v \in { "A", "B" } : ServerInit(v)

RunVars == << msgDetail, extracted, fetch >>

AccountEmails(accts) == { accts[i].email : i \in 1..Len(accts) }

\* ---- GET /api/auth/google/callback
\* The response to callback request r
CallbackResponse(r, status, text) ==
  [ NoResponse EXCEPT !.route = "callback", !.status = status, !.text = text,
                      !.called = r.called, !.sid = r.sid, !.email = r.email,
                      !.tokens = r.tokens, !.fstatus = r.fetch.status,
                      !.fetched = FetchFetched(r.fetch),
                      !.failed = r.fetch.failed, !.value = r.fetch.value ]

\* The request arrives; without a code it is answered 400 at once, with one
\* the token exchange is issued.
CallbackStart(c) ==
  /\ callbacks[c].pc = "idle"
  /\ \E sid \in (IF variant = "B" THEN Sids ELSE { 0 }), code \in BOOLEAN :
       LET r == [ IdleCallback EXCEPT !.sid = sid ] IN
       IF ~code
       THEN /\ sent' = CallbackResponse(r, 400, "Missing authorization code.")
            /\ UNCHANGED callbacks
       ELSE /\ callbacks' = [ callbacks EXCEPT ![c] =
                                [ r EXCEPT !.pc = "token", !.called = TRUE ] ]
            /\ sent' = NoResponse
  /\ UNCHANGED << variant, connectedAccounts, sessions, gets,
                  nextToken, tombstone, lastLogin, RunVars >>

\* a catch block that falls through to the redirect
CallbackFailedRedirect(c, r) ==
  /\ callbacks' = [ callbacks EXCEPT ![c] = IdleCallback ]
  /\ sent' = CallbackResponse(r, 302, "/inbox")

\* The catch block of the callback handler
CallbackFailed(c, r) ==
  /\ callbacks' = [ callbacks EXCEPT ![c] = IdleCallback ]
  /\ sent' = CallbackResponse(r, 500, "Authentication failed.")

\* await oauth2Client.getToken(code) returns: a fresh token set, or an error
CallbackTokenReturns(c) ==
  /\ callbacks[c].pc = "token"
  /\ \/ /\ nextToken <= MaxTokens
        /\ callbacks' = [ callbacks EXCEPT ![c].pc = "userinfo",
                                           ![c].tokens = nextToken ]
        /\ nextToken' = nextToken + 1
        /\ sent' = NoResponse
     \/ /\ CallbackFailed(c, callbacks[c])
        /\ UNCHANGED nextToken
  /\ UNCHANGED << variant, connectedAccounts, sessions, gets,
                  tombstone, lastLogin, RunVars >>

\* Variant A: await oauth2.userinfo.get() returns; on success fetchEmails is
\* called with the new credentials.
CallbackUserinfoReturnsA(c) ==
  /\ variant = "A"
  /\ callbacks[c].pc = "userinfo"
  /\ \/ \E e \in Emails :
          /\ callbacks' = [ callbacks EXCEPT ![c].pc = "fetch", ![c].email = e,
                                             ![c].fetch = FetchStart ]
          /\ sent' = NoResponse
     \/ CallbackFailed(c, callbacks[c])
  /\ UNCHANGED << variant, connectedAccounts, sessions, gets,
                  nextToken, tombstone, lastLogin, RunVars >>

\* connectedAccounts.push({ email, tokens, messages }) with no check before it
upsertAlways(accts, email, tokens, messages) ==
  Append(accts, [ email |-> email, tokens |-> tokens, messages |-> messages ])

\* the account's tokens and messages replaced when the email is known
upsertOverwrite(accts, email, tokens, messages) ==
  IF email \in AccountEmails(accts)
  THEN [ i \in 1..Len(accts) |->
           IF accts[i].email = email
           THEN [ email |-> email, tokens |-> tokens, messages |-> messages ]
           ELSE accts[i] ]
  ELSE Append(accts, [ email |-> email, tokens |-> tokens, messages |-> messages ])

\* if (!connectedAccounts.find(acc => acc.email === email))
\*   connectedAccounts.push({ email, tokens, messages });
upsertIfAbsent(accts, email, tokens, messages) ==
  IF email \in AccountEmails(accts) THEN accts
  ELSE Append(accts, [ email |-> email, tokens |-> tokens, messages |-> messages ])

\* Variant A: the code after `await fetchEmails(oauth2Client)`, given the
\* state f the call is in now.
CallbackResumeA(c, f) ==
  LET r == [ callbacks[c] EXCEPT !.fetch = f ] IN
  IF f.status = "fulfilled" THEN
    /\ connectedAccounts' =
         upsertIfAbsent(connectedAccounts, r.email, r.tokens, f.value)
    /\ callbacks' = [ callbacks EXCEPT ![c] = IdleCallback ]
    /\ sent' = CallbackResponse(r, 302, "/inbox")
    /\ tombstone' = [ tombstone EXCEPT ![r.email] = NoTombstone ]
    /\ gets' = [ g \in GetReqs |-> [ gets[g] EXCEPT !.after = @ \ { r.email } ] ]
  ELSE IF f.status = "rejected" THEN
    /\ CallbackFailed(c, r)
    /\ UNCHANGED << connectedAccounts, tombstone, gets >>
  ELSE
    /\ callbacks' = [ callbacks EXCEPT ![c] = r ]
    /\ sent' = NoResponse /\ UNCHANGED << connectedAccounts, tombstone, gets >>

\* Variant A: the list call of the callback's fetchEmails returns; with
\* identifiers, the detail fetches are issued.
CallbackListReturnsA(c) ==
  /\ variant = "A"
  /\ callbacks[c].pc = "fetch"
  /\ callbacks[c].fetch.status = "list"
  /\ \/ CallbackResumeA(c, FetchListFailed(callbacks[c].fetch))
     \/ CallbackResumeA(c, FetchListEmpty(callbacks[c].fetch))
     \/ \E ids \in ServerInboxes :
          CallbackResumeA(c, FetchListIds(callbacks[c].fetch, ids))
  /\ UNCHANGED << variant, sessions, nextToken, lastLogin, RunVars >>

\* Variant A: the Promise.all of the callback's fetchEmails settles.
CallbackDetailsReturnA(c) ==
  /\ variant = "A"
  /\ callbacks[c].pc = "fetch"
  /\ callbacks[c].fetch.status = "details"
  /\ \E f \in FetchSettlements(callbacks[c].fetch) : CallbackResumeA(c, f)
  /\ UNCHANGED << variant, sessions, nextToken, lastLogin, RunVars >>

\* the session user kept when the session already has one
loginIfAbsent(store, sid, email, tokens) ==
  IF store[sid] # << >> THEN store
  ELSE [ store EXCEPT ![sid] = << [ email |-> email, tokens |-> tokens ] >> ]

\* req.session.user = { email, tokens }, saved when the response ends
login(store, sid, email, tokens) ==
  [ store EXCEPT ![sid] = << [ email |-> email, tokens |-> tokens ] >> ]

\* Variant B: await oauth2.userinfo.get() returns; on success the user is
\* saved in the session and the browser is redirected.
CallbackUserinfoReturnsB(c) ==
  /\ variant = "B"
  /\ callbacks[c].pc = "userinfo"
  /\ \/ \E e \in Emails :
          /\ sessions' = login(sessions, callbacks[c].sid, e, callbacks[c].tokens)
          /\ lastLogin' = [ lastLogin EXCEPT ![callbacks[c].sid] = e ]
          /\ callbacks' = [ callbacks EXCEPT ![c] = IdleCallback ]
          /\ sent' = CallbackResponse([ callbacks[c] EXCEPT !.email = e ], 302, "/inbox")
     \/ /\ CallbackFailed(c, callbacks[c])
        /\ UNCHANGED << sessions, lastLogin >>
  /\ UNCHANGED << variant, connectedAccounts, gets, nextToken,
                  tombstone, RunVars >>

\* ---- GET /api/emails
\* The response to GET /api/emails request r, whose last fetchEmails call is
\* in state f
GetResponse(r, f, status, text, body) ==
  [ NoResponse EXCEPT !.route = "emails", !.status = status, !.text = text,
                      !.body = body, !.called = r.called, !.sid = r.sid,
                      !.email = r.email, !.tokens = r.tokens, !.idx = r.idx,
                      !.fstatus = f.status, !.fetched = FetchFetched(f),
                      !.failed = f.failed, !.value = f.value,
                      !.seen = r.seen, !.after = r.after ]

\* Variant A: the for...of loop asks its iterator for the next account: the
\* iterator holds the array object the loop started on and reads its length
\* and element when asked. With an account left, fetchEmails is called with
\* that account's tokens; with none left, res.json(updatedAccounts).
GetNextA(g, r, f) ==
  LET arr == IF r.live THEN connectedAccounts ELSE r.arr IN
  IF r.idx < Len(arr)
  THEN /\ gets' = [ gets EXCEPT ![g] =
                      [ r EXCEPT !.pc = "fetch", !.idx = r.idx + 1,
                                 !.email = arr[r.idx + 1].email,
                                 !.tokens = arr[r.idx + 1].tokens,
                                 !.fetch = FetchStart, !.called = TRUE ] ]
       /\ sent' = NoResponse
  ELSE /\ gets' = [ gets EXCEPT ![g] = IdleGet ]
       /\ sent' = GetResponse(r, f, 200, "", r.updatedAccounts)

\* Variant A: the request arrives: updatedAccounts = [] and the loop starts
\* on the array connectedAccounts refers to now.
GetStartA(g) ==
  /\ variant = "A"
  /\ gets[g].pc = "idle"
  /\ GetNextA(g, [ IdleGet EXCEPT !.live = TRUE,
                     !.after = { e \in Emails : tombstone[e].deleted } ],
              FetchIdle)
  /\ UNCHANGED << variant, connectedAccounts, sessions, callbacks,
                  nextToken, tombstone, lastLogin, RunVars >>

\* a catch block that answers with what the loop has gathered so far
GetFailedPartial(g, r, f) ==
  /\ gets' = [ gets EXCEPT ![g] = IdleGet ]
  /\ sent' = GetResponse(r, f, 200, "", r.updatedAccounts)

\* The catch block of GET /api/emails
GetFailed(g, r, f) ==
  /\ gets' = [ gets EXCEPT ![g] = IdleGet ]
  /\ sent' = GetResponse(r, f, 500, "Failed to fetch emails", << >>)

\* the fetched messages written back to the stored account
RefreshStored(accts, email, messages) ==
  [ i \in 1..Len(accts) |->
      IF accts[i].email = email THEN [ accts[i] EXCEPT !.messages = messages ]
      ELSE accts[i] ]

\* What the loop does to the stored accounts with the messages it fetched:
\* nothing (they go to updatedAccounts only).
StoreAfterRefresh(accts, email, messages) == accts

\* Variant A: the code after `await fetchEmails(oauth2Client)` in the loop.
GetResumeA(g, f) ==
  LET r == gets[g] IN
  /\ IF f.status = "fulfilled"
     THEN GetNextA(g, [ r EXCEPT !.updatedAccounts =
                          Append(@, [ email |-> r.email, messages |-> f.value ]) ], f)
     ELSE IF f.status = "rejected" THEN GetFailed(g, r, f)
     ELSE gets' = [ gets EXCEPT ![g].fetch = f ] /\ sent' = NoResponse
  /\ connectedAccounts' =
       IF f.status = "fulfilled"
       THEN StoreAfterRefresh(connectedAccounts, r.email, f.value)
       ELSE connectedAccounts

GetListReturnsA(g) ==
  /\ variant = "A"
  /\ gets[g].pc = "fetch"
  /\ gets[g].fetch.status = "list"
  /\ \/ GetResumeA(g, FetchListFailed(gets[g].fetch))
     \/ GetResumeA(g, FetchListEmpty(gets[g].fetch))
     \/ \E ids \in ServerInboxes : GetResumeA(g, FetchListIds(gets[g].fetch, ids))
  /\ UNCHANGED << variant, sessions, callbacks, nextToken, tombstone, lastLogin,
                  RunVars >>

\* Variant A: the Promise.all of the loop's fetchEmails settles.
GetDetailsReturnA(g) ==
  /\ variant = "A"
  /\ gets[g].pc = "fetch"
  /\ gets[g].fetch.status = "details"
  /\ \E f \in FetchSettlements(gets[g].fetch) : GetResumeA(g, f)
  /\ UNCHANGED << variant, sessions, callbacks, nextToken, tombstone, lastLogin,
                  RunVars >>

\* Variant B: the request arrives with its session: 401 without a session
\* user, else fetchEmails is called with the session user's tokens.
GetStartB(g) ==
  /\ variant = "B"
  /\ gets[g].pc = "idle"
  /\ \E sid \in Sids :
       LET r == [ IdleGet EXCEPT !.sid = sid, !.seen = lastLogin[sid] ] IN
       IF sessions[sid] = << >>
       THEN /\ sent' = GetResponse(r, FetchIdle, 401, "Not logged in", << >>)
            /\ UNCHANGED gets
       ELSE /\ gets' = [ gets EXCEPT ![g] =
                 [ r EXCEPT !.pc = "fetch", !.email = sessions[sid][1].email,
                            !.tokens = sessions[sid][1].tokens,
                            !.fetch = FetchStart, !.called = TRUE ] ]
            /\ sent' = NoResponse
  /\ UNCHANGED << variant, connectedAccounts, sessions, callbacks,
                  nextToken, tombstone, lastLogin, RunVars >>

\* Variant B: the code after `await fetchEmails(oauth2Client)`.
GetResumeB(g, f) ==
  LET r == gets[g] IN
  IF f.status = "fulfilled"
  THEN /\ gets' = [ gets EXCEPT ![g] = IdleGet ]
       /\ sent' = GetResponse(r, f, 200, "",
                              << [ email |-> r.email, messages |-> f.value ] >>)
  ELSE IF f.status = "rejected" THEN GetFailed(g, r, f)
  ELSE gets' = [ gets EXCEPT ![g].fetch = f ] /\ sent' = NoResponse

GetListReturnsB(g) ==
  /\ variant = "B"
  /\ gets[g].pc = "fetch"
  /\ gets[g].fetch.status = "list"
  /\ \/ GetResumeB(g, FetchListFailed(gets[g].fetch))
     \/ GetResumeB(g, FetchListEmpty(gets[g].fetch))
     \/ \E ids \in ServerInboxes : GetResumeB(g, FetchListIds(gets[g].fetch, ids))
  /\ UNCHANGED << variant, connectedAccounts, sessions, callbacks,
                  nextToken, tombstone, lastLogin, RunVars >>

\* Variant B: the Promise.all of the request's fetchEmails settles.
GetDetailsReturnB(g) ==
  /\ variant = "B"
  /\ gets[g].pc = "fetch"
  /\ gets[g].fetch.status = "details"
  /\ \E f \in FetchSettlements(gets[g].fetch) : GetResumeB(g, f)
  /\ UNCHANGED << variant, connectedAccounts, sessions, callbacks,
                  nextToken, tombstone, lastLogin, RunVars >>

\* ---- DELETE /api/emails/:email (variant A)
\* the account removed by moving the last one into its place
removeBySwap(accts, e) ==
  IF e \notin AccountEmails(accts) THEN accts
  ELSE LET i == CHOOSE i \in 1..Len(accts) : accts[i].email = e
           n == Len(accts)
       IN [ k \in 1..(n - 1) |-> IF k = i THEN accts[n] ELSE accts[k] ]

\* filter() with the test inverted
removeOthers(accts, e) == SelectSeq(accts, LAMBDA acc : acc.email = e)

\* connectedAccounts.filter(acc => acc.email !== emailToDelete): a new array
removeByEmail(accts, e) == SelectSeq(accts, LAMBDA acc : acc.email # e)

\* The handler is synchronous: filter() builds a new array and the module
\* variable is re-bound to it. The array it referred to before is left as it
\* was: a loop that runs on it is detached from connectedAccounts.
Delete(e) ==
  /\ variant = "A"
  /\ connectedAccounts' = removeByEmail(connectedAccounts, e)
  /\ gets' = [ g \in GetReqs |->
       IF gets[g].pc = "fetch" /\ gets[g].live
       THEN [ gets[g] EXCEPT !.live = FALSE, !.arr = connectedAccounts ]
       ELSE gets[g] ]
  /\ sent' = [ NoResponse EXCEPT !.route = "delete", !.status = 200,
                                 !.text = "{success:true}", !.email = e ]
  /\ tombstone' = [ tombstone EXCEPT ![e] =
       [ deleted |-> TRUE,
         tokens  |-> IF e \in AccountEmails(connectedAccounts)
                     THEN connectedAccounts[
                            CHOOSE i \in 1..Len(connectedAccounts) :
                              connectedAccounts[i].email = e].tokens
                     ELSE @.tokens ] ]
  /\ UNCHANGED << variant, sessions, callbacks, nextToken, lastLogin, RunVars >>

\* ---- POST /api/logout (variant B)
\* req.session.destroy(cb): the store drops the session, or reports an error
Logout(sid) ==
  /\ variant = "B"
  /\ \/ /\ sessions' = [ sessions EXCEPT ![sid] = << >> ]
        /\ lastLogin' = [ lastLogin EXCEPT ![sid] = "" ]
        /\ sent' = [ NoResponse EXCEPT !.route = "logout", !.status = 200,
                                       !.text = "{success:true}", !.sid = sid ]
     \/ /\ sent' = [ NoResponse EXCEPT !.route = "logout", !.status = 500,
                                       !.text = "Logout failed", !.sid = sid ]
        /\ UNCHANGED << sessions, lastLogin >>
  /\ UNCHANGED << variant, connectedAccounts, callbacks, gets, nextToken,
                  tombstone, RunVars >>

Next ==
  \/ \E c \in CallbackReqs : CallbackStart(c)
  \/ \E c \in CallbackReqs : CallbackTokenReturns(c)
  \/ \E c \in CallbackReqs : CallbackUserinfoReturnsA(c)
  \/ \E c \in CallbackReqs : CallbackListReturnsA(c)
  \/ \E c \in CallbackReqs : CallbackDetailsReturnA(c)
  \/ \E c \in CallbackReqs : CallbackUserinfoReturnsB(c)
  \/ \E g \in GetReqs : GetStartA(g)
  \/ \E g \in GetReqs : GetListReturnsA(g)
  \/ \E g \in GetReqs : GetDetailsReturnA(g)
  \/ \E g \in GetReqs : GetStartB(g)
  \/ \E g \in GetReqs : GetListReturnsB(g)
  \/ \E g \in GetReqs : GetDetailsReturnB(g)
  \/ \E e \in Emails : Delete(e)
  \/ \E sid \in Sids : Logout(sid)

Spec == InitServer /\ [][Next]_vars

\* ------------------------------------------------ the account store alone
\* DELETE requests on every store variant A can hold: up to MaxAccounts
\* accounts of different emails, each with tokens of its own.
MaxAccounts == 3

Stores ==
  { st \in UNION { [1..n -> [ email : AllEmails, tokens : 1..MaxAccounts,
                              messages : { << >>, << Extract(DetailOf(1)) >> } ]]
                   : n \in 0..MaxAccounts } :
      \A i, j \in 1..Len(st) :
        i # j => st[i].email # st[j].email /\ st[i].tokens # st[j].tokens }

InitStore ==
  /\ msgDetail = [ payload |-> NoPayload, snippet |-> "" ]
  /\ extracted = << >>
  /\ fetch = FetchIdle
  /\ variant = "A"
  /\ connectedAccounts \in Stores
  /\ sessions = [ s \in Sids |-> << >> ]
  /\ callbacks = [ c \in CallbackReqs |-> IdleCallback ]
  /\ gets = [ g \in GetReqs |-> IdleGet ]
  /\ sent = NoResponse
  /\ nextToken = MaxAccounts + 1
  /\ tombstone = [ e \in AllEmails |-> NoTombstone ]
  /\ lastLogin = [ s \in Sids |-> "" ]

NextStore == \E e \in AllEmails : Delete(e)

SpecStore == InitStore /\ [][NextStore]_vars

\* ------------------------------------------------- claims on the extractor
\* The content a part or body carries once decoded: empty when it has no data.
Content(data) == IF HasData(data) THEN Decode(data) ELSE << >>

\* The content of the last part that satisfies Sel(part), or empty.
LastContent(parts, Sel(_)) ==
  LET idx == { i \in 1..Len(parts) : Sel(parts[i]) }
  IN IF idx = {} THEN << >>
     ELSE Content(parts[CHOOSE i \in idx : \A k \in idx : k <= i].data)

IsPlain(part) == part.mimeType = "text/plain"
IsHtml(part)  == part.mimeType = "text/html"
IsPlainWithData(part) == IsPlain(part) /\ HasData(part.data)
IsHtmlWithData(part)  == IsHtml(part) /\ HasData(part.data)

NoPartsPolicy ==
  LET p == msgDetail.payload
  IN (extracted # << >> /\ (~p.present \/ Len(p.parts) = 0)) =>
       /\ extracted[1].textHtml = << >>
       /\ extracted[1].textPlain = IF p.present THEN Content(p.data) ELSE << >>

\* C8 as stated: with a non-empty parts list, textPlain is the decoded content
\* of the last text/plain part and textHtml that of the last text/html part
\* (empty when there is no part of the type); with no parts, textHtml is empty
\* and textPlain is the decoded top-level body.
C8_LastPartOfTypeWins ==
  LET p == msgDetail.payload
  IN /\ (extracted # << >> /\ p.present /\ Len(p.parts) > 0) =>
          /\ extracted[1].textPlain = LastContent(p.parts, IsPlain)
          /\ extracted[1].textHtml = LastContent(p.parts, IsHtml)
     /\ NoPartsPolicy

\* C8 amended: with a non-empty parts list, textPlain is the decoded content
\* of the last text/plain part that carries non-empty body data, and textHtml
\* that of the last text/html part that carries non-empty body data (empty
\* when there is no such part); a part without data never replaces an earlier
\* one. With no parts, textHtml is empty and textPlain is the decoded
\* top-level body (empty when there is none).
C8_LastPartWithDataWins ==
  LET p == msgDetail.payload
  IN /\ (extracted # << >> /\ p.present /\ Len(p.parts) > 0) =>
          /\ extracted[1].textPlain = LastContent(p.parts, IsPlainWithData)
          /\ extracted[1].textHtml = LastContent(p.parts, IsHtmlWithData)
     /\ NoPartsPolicy

\* Two text/plain parts with different content and no text/html part: the
\* second one's content is extracted.
C8_Witness ==
  /\ extracted # << >>
  /\ msgDetail.payload.present
  /\ Len(msgDetail.payload.parts) = 2
  /\ \A i \in 1..2 : IsPlain(msgDetail.payload.parts[i])
  /\ msgDetail.payload.parts[1].data = B64Hi
  /\ msgDetail.payload.parts[2].data = B64Yo
  /\ extracted[1].textPlain = << 89, 111 >>
  /\ extracted[1].textHtml = << >>

\* ---------------------------------------------------- claims on fetchEmails
\* C4: when the list call returned id_1..id_n and all n detail fetches
\* succeeded, fetchEmails resolves with n records, the i-th extracted from the
\* detail of id_i, whatever the order the detail fetches completed in.
C4_PositionalJoin ==
  (fetch.status = "fulfilled" /\ fetch.ids # << >>) =>
    /\ fetch.failed = {}
    /\ Len(fetch.value) = Len(fetch.ids)
    /\ \A i \in 1..Len(fetch.ids) :
         fetch.value[i] = Extract(DetailOf(fetch.ids[i]))

\* A run resolved with as many records as the bound allows, the identifiers
\* not in increasing order.
C4_Witness ==
  /\ fetch.status = "fulfilled"
  /\ Len(fetch.ids) = MaxMsgs
  /\ fetch.ids[1] > fetch.ids[2]
  /\ Len(fetch.value) = MaxMsgs
  /\ fetch.value[1].textPlain # fetch.value[2].textPlain

\* --------------------------------------------- claims on the account store
\* C1: variant A: in every reachable state, whatever the interleaving of
\* callback, GET /api/emails and DELETE requests, no two entries of
\* connectedAccounts have the same email.
C1_UniqueEmails ==
  variant = "A" =>
    \A i, j \in 1..Len(connectedAccounts) :
      i # j => connectedAccounts[i].email # connectedAccounts[j].email

\* A callback has just been redirected whose email is stored with tokens
\* issued after its own: the two callbacks for that email were in flight
\* together, and the store holds the email once.
C1_Witness ==
  /\ variant = "A"
  /\ sent.route = "callback" /\ sent.status = 302
  /\ Len(connectedAccounts) = 1
  /\ connectedAccounts[1].email = sent.email
  /\ connectedAccounts[1].tokens > sent.tokens

\* C2: variant A: a callback that succeeds for an email already in the store
\* leaves the store as it is (the entry keeps its tokens and messages); one
\* that succeeds for an email not in the store appends exactly one entry, with
\* its email, tokens and fetched messages, at the end.
C2_CallbackUpsert ==
  [][ (variant = "A" /\ sent'.route = "callback" /\ sent'.status = 302) =>
        IF sent'.email \in AccountEmails(connectedAccounts)
        THEN connectedAccounts' = connectedAccounts
        ELSE connectedAccounts' =
               connectedAccounts \o << [ email    |-> sent'.email,
                                         tokens   |-> sent'.tokens,
                                         messages |-> sent'.value ] >> ]_vars

\* A callback has just been redirected whose tokens and messages both differ
\* from those stored for its email.
C2_Witness ==
  /\ variant = "A"
  /\ sent.route = "callback" /\ sent.status = 302
  /\ \E i \in 1..Len(connectedAccounts) :
       /\ connectedAccounts[i].email = sent.email
       /\ connectedAccounts[i].tokens # sent.tokens
       /\ connectedAccounts[i].messages # sent.value

\* The place entry i of accts has among the entries whose email is not e
Rank(accts, e, i) == Cardinality({ k \in 1..i : accts[k].email # e })

\* C3: variant A: DELETE /api/emails/e leaves no entry with email e, keeps
\* every other entry as it was and in the same relative order, leaves the
\* store as it is when no entry has email e (so a second DELETE of e changes
\* nothing), and answers 200 {success: true} in every case.
C3_DeleteRemovesInOrder ==
  [][ \A e \in AllEmails : Delete(e) =>
        LET old  == connectedAccounts
            new  == connectedAccounts'
            kept == { i \in 1..Len(old) : old[i].email # e }
        IN /\ e \notin AccountEmails(new)
           /\ Len(new) = Cardinality(kept)
           /\ \A i \in kept : new[Rank(old, e, i)] = old[i]
           /\ (e \notin AccountEmails(old) => new = old)
           /\ sent'.route = "delete" /\ sent'.status = 200
           /\ sent'.text = "{success:true}" ]_vars

\* The DELETE of a@x.com has removed an account from a store of three: the
\* other two are left, b@x.com before c@x.com.
C3_Witness ==
  /\ sent.route = "delete" /\ sent.email = "a@x.com"
  /\ tombstone["a@x.com"].tokens # 0
  /\ Len(connectedAccounts) = 2
  /\ connectedAccounts[1].email = "b@x.com"
  /\ connectedAccounts[2].email = "c@x.com"

\* C6: variant A: no step of a GET /api/emails request changes
\* connectedAccounts; the messages it fetches go into the response only.
C6_GetLeavesStore ==
  [][ (\E g \in GetReqs :
         GetStartA(g) \/ GetListReturnsA(g) \/ GetDetailsReturnA(g)) =>
        connectedAccounts' = connectedAccounts ]_vars

\* A GET /api/emails has just answered 200 with messages for an account
\* that differ from the messages stored for it.
C6_Witness ==
  /\ variant = "A"
  /\ sent.route = "emails" /\ sent.status = 200
  /\ \E i \in 1..Len(sent.body), k \in 1..Len(connectedAccounts) :
       /\ sent.body[i].email = connectedAccounts[k].email
       /\ sent.body[i].messages # connectedAccounts[k].messages

\* ------------------------------------------------ claims on the responses
\* C5: when a detail fetch of a fetchEmails call fails, the call is rejected
\* and yields no records, whatever its other detail fetches did, and the
\* request ends there; GET /api/emails then answers 500 with the error and
\* an empty list, never 200 with part of the list, in variant A also when the
\* accounts before the failing one were refreshed.
C5_DetailFailureFailsRequest ==
  /\ \A g \in GetReqs :
       gets[g].fetch.failed = {} /\ gets[g].fetch.status # "rejected"
  /\ \A c \in CallbackReqs :
       callbacks[c].fetch.failed = {} /\ callbacks[c].fetch.status # "rejected"
  /\ sent.failed # {} => sent.fstatus = "rejected" /\ sent.value = << >>
  /\ sent.route = "emails" =>
       /\ sent.fstatus = "rejected" =>
            /\ sent.status = 500
            /\ sent.text = "Failed to fetch emails"
            /\ sent.body = << >>
       /\ sent.status = 200 => sent.failed = {}

\* Variant A: the request has just been answered 500 because a detail fetch
\* for the second account failed after another detail fetch of that call had
\* succeeded.
C5_Witness ==
  /\ variant = "A"
  /\ sent.route = "emails" /\ sent.status = 500
  /\ sent.idx = 2
  /\ sent.failed # {} /\ sent.fetched # {}
  /\ sent.body = << >>

\* C7: variant B: a GET /api/emails request that arrives on a session without
\* a user (never logged in, or logged out) is answered 401 and makes no
\* provider call; one that arrives on a session with a user is answered 500,
\* or 200 with exactly one entry, whose email is that of the last callback
\* that succeeded on the session before the request arrived.
C7_SessionGet ==
  (variant = "B" /\ sent.route = "emails") =>
    IF sent.seen = ""
    THEN /\ sent.status = 401 /\ sent.text = "Not logged in"
         /\ ~sent.called
         /\ sent.body = << >>
    ELSE \/ sent.status = 500
         \/ /\ sent.status = 200
            /\ Len(sent.body) = 1
            /\ sent.body[1].email = sent.seen

\* The request on session 1 has just been answered 200 with the account of
\* the session's user, b@x.com, and its messages, while session 2 holds
\* another user.
C7_Witness ==
  /\ variant = "B"
  /\ sent.route = "emails" /\ sent.status = 200 /\ sent.sid = 1
  /\ sent.seen = "b@x.com"
  /\ sent.body = << [ email |-> "b@x.com", messages |-> sent.value ] >>
  /\ sent.value # << >>
  /\ sessions[2] # << >> /\ sessions[2][1].email = "a@x.com"

\* C9: both variants: a callback request is answered 400, 500 or a redirect.
\* Without a code it is answered 400 and has made no provider call; the 500
\* is the answer of a request whose provider call failed. A request answered
\* 400 or 500 leaves connectedAccounts and the sessions as they were. The
\* redirect is sent only when the token exchange, the profile fetch and (in
\* variant A) the inbox fetch have all succeeded.
C9_CallbackErrors ==
  [][ sent'.route = "callback" =>
        /\ sent'.status \in { 302, 400, 500 }
        /\ sent'.status = 400 =>
             ~sent'.called /\ sent'.text = "Missing authorization code."
        /\ sent'.status = 500 =>
             sent'.called /\ sent'.text = "Authentication failed."
        /\ sent'.status \in { 400, 500 } =>
             connectedAccounts' = connectedAccounts /\ sessions' = sessions
        /\ sent'.status = 302 =>
             /\ sent'.text = "/inbox"
             /\ sent'.tokens # 0
             /\ sent'.email # ""
             /\ variant = "A" =>
                  sent'.fstatus = "fulfilled" /\ sent'.failed = {}
        /\ (sent'.tokens = 0 \/ sent'.email = "" \/ sent'.fstatus = "rejected")
             => sent'.status # 302 ]_vars

\* Variant A: a callback has just been answered 500 because its inbox fetch
\* failed, while the store holds an account.
C9_Witness ==
  /\ variant = "A"
  /\ sent.route = "callback" /\ sent.status = 500
  /\ sent.tokens # 0 /\ sent.email # ""
  /\ sent.fstatus = "rejected"
  /\ connectedAccounts # << >>

\* GET /api/emails request g issues a provider call in this step: it calls
\* fetchEmails for an account, or its list call returned identifiers and the
\* detail fetches go out.
IssuesCall(g) ==
  /\ gets'[g].pc = "fetch"
  /\ \/ gets[g].pc # "fetch"
     \/ gets'[g].idx # gets[g].idx
     \/ gets[g].fetch.status = "list" /\ gets'[g].fetch.status = "details"

\* C10 as stated: variant A: once DELETE /api/emails/e has completed and no
\* callback for e has completed since, no GET /api/emails response has an
\* entry with email e and no GET /api/emails request issues a provider call
\* with the tokens of the deleted account, requests in flight at the time of
\* the DELETE included.
C10_NoUseAfterDelete ==
  [][ variant = "A" =>
        \A e \in Emails : tombstone[e].deleted =>
          /\ sent'.route = "emails" => e \notin AccountEmails(sent'.body)
          /\ \A g \in GetReqs : IssuesCall(g) =>
               \/ tombstone[e].tokens = 0
               \/ gets'[g].tokens # tombstone[e].tokens ]_vars

\* C10 amended: variant A: the same for the requests that arrive after the
\* DELETE has completed: while no callback for e has completed since, such a
\* request returns no entry with email e and issues no provider call with the
\* tokens of the deleted account. (A request in flight at the time of the
\* DELETE goes on with the array it started on.)
C10_NoUseByLaterRequests ==
  [][ variant = "A" =>
        /\ sent'.route = "emails" =>
             \A e \in sent'.after : e \notin AccountEmails(sent'.body)
        /\ \A g \in GetReqs : IssuesCall(g) =>
             \A e \in gets'[g].after :
               \/ tombstone[e].tokens = 0
               \/ gets'[g].tokens # tombstone[e].tokens ]_vars

\* A request that arrived after the DELETE of a stored account has just been
\* answered 200 with the accounts that are left.
C10_Witness ==
  /\ variant = "A"
  /\ sent.route = "emails" /\ sent.status = 200
  /\ sent.body # << >>
  /\ \E e \in sent.after :
       /\ tombstone[e].deleted /\ tombstone[e].tokens # 0
       /\ e \notin AccountEmails(sent.body)

=============================================================================
